---- MODULE Spec2Model ----
(***************************************************************************)
(* Timetable generator: the slot/timetable data model (timetable.py, and   *)
(* the Timetable class of generate.py with apply_genome), the measures     *)
(* (measures.py) and the piecewise-linear evaluation (evaluation.py).      *)
(*                                                                         *)
(* Times are minutes since midnight of the day the test is configured for  *)
(* (a datetime); rooms and tutors are sequences of names; a genome is a    *)
(* sequence of 0-based indices into the tutor list, as in Python.          *)
(***************************************************************************)
EXTENDS Integers, Sequences, FiniteSets, TLC

VARIABLES
    pc,            \* "start" | "constructed" | "failed"
    err,           \* exception that ended the construction, or "none"
    start,         \* the start the caller asked for (argument of the constructor)
    test,          \* Timetable.test
    rooms,         \* Timetable.rooms
    tutors,        \* Timetable.tutors
    num_groups,    \* Timetable.num_groups
    testlen,       \* Timetable.testlen
    slotlen,       \* Timetable.slotlen
    slots,         \* Timetable._slots: sequence of Slot records
    slot_matrix,   \* Timetable._slot_matrix: rows of indices into slots, 0 = None
    last,          \* the last call on the timetable and what it returned
    fs             \* evaluation.fs: the global table of the fuzzy control system

vars == <<pc, err, start, test, rooms, tutors, num_groups, testlen, slotlen,
          slots, slot_matrix, last, fs>>

timetable == <<test, rooms, tutors, num_groups, testlen, slotlen, slots, slot_matrix>>

----------------------------------------------------------------------------
(* Bounds of the model *)

\* rooms of the timetables whose assignments are explored
MaxRooms == 3
\* groups x tutors of a timetable whose assignments are explored
MaxLoad == 4
\* the same for the timetables on which the contract of apply_genome is explored
ApplyMaxRooms == 2
ApplyMaxLoad == 3
\* rooms, groups and tutors of the timetables that are only constructed
BuildMaxRooms == 5
BuildMaxGroups == 6
BuildMaxTutors == 5
\* SpecFuzzy: rooms, and groups x tutors, of the timetables under the fuzzy strategy
FuzzyMaxRooms == 3
FuzzyMaxLoad == 4
\* SpecEval: the same for the timetables the optimizer evaluates
EvalMaxRooms == 4
EvalMaxLoad == 4

(* Program constants *)
SLOTLEN_TEST1 == 20
TESTLEN_TEST1 == 100
SLOTLEN_TEST2 == 30
TESTLEN_TEST2 == 120

DayMinutes == 24 * 60

\* default tutor list of generate.py
DefaultTutors == <<"Benedikt", "Fabjan", "Linus", "Lukas", "Mario", "Neu">>
\* room names (generate.py: rooms of test 1)
RoomNames == <<"R1", "R2", "R3", "R4", "R5", "R6">>
\* rooms of the script for test 2: the preparation room comes first
RoomsTest2 == <<"R4", "R1", "R2", "R3">>

\* start times a caller passes: 08:00 and 23:20 (the timetable then crosses midnight)
Starts == {480, 1400}

NotYetSet == "<not yet set>"

----------------------------------------------------------------------------
(* Helpers *)

Max(S) == CHOOSE x \in S : \A y \in S : y <= x

RECURSIVE SumTo(_, _)
\* sum of f[1..n] (0 for an empty range)
SumTo(f, n) == IF n <= 0 THEN 0 ELSE SumTo(f, n - 1) + f[n]

Abs(x) == IF x < 0 THEN -x ELSE x

----------------------------------------------------------------------------
(* class Slot *)

Slot(s_start) == [start |-> s_start, group |-> -1, tutor |-> NotYetSet]

----------------------------------------------------------------------------
(* Timetable.__init__: the values it derives from its arguments.           *)
(* r is the 0-based room index, c the 0-based column, as in the code.      *)

SlotLenOf(t) == IF t = 1 THEN SLOTLEN_TEST1 ELSE SLOTLEN_TEST2
TestLenOf(t) == IF t = 1 THEN TESTLEN_TEST1 ELSE TESTLEN_TEST2

\* num_slots_total (computed by the constructor, never used afterwards)
NumSlotsTotal(t, g) ==
    IF t = 1 THEN (g * (TestLenOf(t) - SlotLenOf(t))) \div SlotLenOf(t)
             ELSE (g * TestLenOf(t)) \div SlotLenOf(t)

LabRoomsFirst(t) == IF t = 1 THEN 0 ELSE 1
LabRooms(t, nrooms) == IF t = 1 THEN nrooms ELSE nrooms - 1

\* variant of ShiftedStart: the start is not shifted for test 1
ShiftedStartNone(t, st) == st

\* test 1: the seminar room is missing, the lab rooms start one slot later
ShiftedStart(t, st) == IF t = 1 THEN st + SLOTLEN_TEST1 ELSE st

SlotsPerGroup(t) == (TestLenOf(t) - SlotLenOf(t)) \div SlotLenOf(t)

\* variant of GroupsPerRoom: the residual groups are not distributed
GroupsPerRoomNoResidual(t, nrooms, g, r) == g \div LabRooms(t, nrooms)

\* variant of GroupsPerRoom: the residual groups go to the last lab rooms
GroupsPerRoomResidualLast(t, nrooms, g, r) ==
    LET lab_rooms == LabRooms(t, nrooms)
    IN  IF (nrooms - 1) - r < g % lab_rooms
        THEN g \div lab_rooms + 1
        ELSE g \div lab_rooms

GroupsPerRoom(t, nrooms, g, r) ==
    LET lab_rooms == LabRooms(t, nrooms)
        min_groups_per_room == g \div lab_rooms
        residual_groups == g % lab_rooms
    IN  IF r - LabRoomsFirst(t) < residual_groups
        THEN min_groups_per_room + 1
        ELSE min_groups_per_room

\* num_slots_per_room, by 1-based room position
NumSlotsPerRoom(t, nrooms, g) ==
    [q \in 1..nrooms |->
        IF t = 2 /\ q = 1 THEN g
        ELSE GroupsPerRoom(t, nrooms, g, q - 1) * SlotsPerGroup(t)]

MaxSlotsPerRoom(t, nrooms, g) ==
    Max({NumSlotsPerRoom(t, nrooms, g)[q] : q \in 1..nrooms}) + LabRooms(t, nrooms)

\* slots created before room r (0-based): where room r starts in _slots
RoomOffset(nspr, r) == SumTo(nspr, r)

RECURSIVE CreateSlots(_, _, _, _)
\* the slot creation loop for rooms 0..n-1: room-major, then time within room;
\* slot_offset = r, the room's shift in slots
CreateSlots(nspr, st, sl, n) ==
    IF n = 0 THEN <<>>
    ELSE LET r == n - 1
             r_start == st + sl * r
         IN  CreateSlots(nspr, st, sl, n - 1) \o
             [s1 \in 1..nspr[n] |-> Slot(r_start + sl * (s1 - 1))]

\* _slot_matrix after slot creation: cell [r][c] holds slot s = c - r of room r
CreateMatrix(nspr, nrooms, cols) ==
    [q \in 1..nrooms |->
        [c1 \in 1..cols |->
            LET r == q - 1
                s == (c1 - 1) - r
            IN  IF s >= 0 /\ s < nspr[q] THEN RoomOffset(nspr, r) + s + 1 ELSE 0]]

\* variant of GroupOfCell: the next group of a lab room is the next id, not the
\* id lab_rooms further on
GroupOfCellNextId(t, nrooms, matrix, r, c) ==
    IF t = 2 /\ r = 0 THEN c
    ELSE LET cnt == Cardinality({c2 \in 1..c : matrix[r + 1][c2] # 0})
         IN  (r - LabRoomsFirst(t)) + (cnt \div SlotsPerGroup(t))

\* the group of the slot in cell [r][c] after group initialisation
GroupOfCell(t, nrooms, matrix, r, c) ==
    IF t = 2 /\ r = 0 THEN c
    ELSE LET cnt == Cardinality({c2 \in 1..c : matrix[r + 1][c2] # 0})
         IN  (r - LabRoomsFirst(t)) + LabRooms(t, nrooms) * (cnt \div SlotsPerGroup(t))

InitGroups(t, nrooms, matrix, created) ==
    [i \in 1..Len(created) |->
        LET cell == CHOOSE rc \in (1..nrooms) \X (1..Len(matrix[1])) :
                        matrix[rc[1]][rc[2]] = i
        IN  [created[i] EXCEPT !.group =
                GroupOfCell(t, nrooms, matrix, cell[1] - 1, cell[2] - 1)]]

NoCall == [op |-> "none", res |-> "none"]

ConstructionFails(e) ==
    /\ pc' = "failed"
    /\ err' = e
    /\ UNCHANGED <<timetable, last, fs>>

\* Timetable(start, test, rooms, tutors, num_groups)
TimetableInit(st, t, rms, tts, g) ==
    /\ pc = "start"
    /\ start' = st
    /\ IF t \notin {1, 2}
       THEN ConstructionFails("RuntimeError")
       ELSE IF LabRooms(t, Len(rms)) = 0
       THEN ConstructionFails("ZeroDivisionError")
       ELSE LET nspr == NumSlotsPerRoom(t, Len(rms), g)
                cols == MaxSlotsPerRoom(t, Len(rms), g)
                matrix == CreateMatrix(nspr, Len(rms), cols)
                created == CreateSlots(nspr, ShiftedStart(t, st), SlotLenOf(t), Len(rms))
            IN  /\ pc' = "constructed"
                /\ err' = "none"
                /\ test' = t
                /\ rooms' = rms
                /\ tutors' = tts
                /\ num_groups' = g
                /\ testlen' = TestLenOf(t)
                /\ slotlen' = SlotLenOf(t)
                /\ slot_matrix' = matrix
                /\ slots' = InitGroups(t, Len(rms), matrix, created)
                /\ last' = [op |-> "Timetable", res |-> "ok"]
                /\ UNCHANGED fs

\* generate.py, the script: the rooms are fixed by the test number, the tutor
\* list is checked against them, then the timetable is constructed
Main(st, t, tts, g) ==
    LET rms == IF t = 1 THEN SubSeq(RoomNames, 1, 4) ELSE RoomsTest2
    IN  /\ pc = "start"
        /\ IF Len(tts) < Len(rms)
           THEN /\ start' = st
                /\ ConstructionFails("Exception")
           ELSE TimetableInit(st, t, rms, tts, g)

----------------------------------------------------------------------------
(* measures.py (the same code as the measure methods of generate.py's      *)
(* Timetable): read-only functions of the timetable                        *)

Rows == Len(slot_matrix)
Cols == Len(slot_matrix[1])

\* a column of the matrix without its empty cells, in room order
ColumnSlots(c1) ==
    LET col == [q \in 1..Rows |-> slot_matrix[q][c1]]
    IN  SelectSeq(col, LAMBDA i : i # 0)

\* get_concurrent_slots(timetable, start_time): the column is searched for in
\* the first row only
get_concurrent_slots(start_time) ==
    LET found == {c1 \in 1..Cols :
                     /\ slot_matrix[1][c1] # 0
                     /\ slots[slot_matrix[1][c1]].start = start_time}
    IN  IF found = {} THEN <<>>
        ELSE ColumnSlots(CHOOSE c1 \in found : \A c2 \in found : c1 <= c2)


SlotsOfTutor(tutor) == {i \in 1..Len(slots) : slots[i].tutor = tutor}

count_slots_of_tutor(tutor) == Cardinality(SlotsOfTutor(tutor))

\* count_overlaps_of_tutor(timetable, tutor)
count_overlaps_of_tutor(tutor) ==
    Cardinality({i \in SlotsOfTutor(tutor) :
        Len(SelectSeq(get_concurrent_slots(slots[i].start),
                      LAMBDA j : slots[j].tutor = tutor)) > 1})

count_possible_overlaps == Len(slots) * (Len(rooms) - 1)

count_overlaps ==
    SumTo([k \in 1..Len(tutors) |-> count_overlaps_of_tutor(tutors[k])], Len(tutors))

\* sort key of the measures: s.start.hour*60 + s.start.minute
MinuteOfDay(t) == t % DayMinutes

\* timedelta.seconds / 60 of a difference of d minutes: the days are dropped
DeltaMinutes(d) == d % DayMinutes

\* sorted(slots of tutor, key = minute of day); the sort is stable
SortedSlotsOf(tutor) ==
    LET S == SlotsOfTutor(tutor)
        Before(j, i) ==
            \/ MinuteOfDay(slots[j].start) < MinuteOfDay(slots[i].start)
            \/ MinuteOfDay(slots[j].start) = MinuteOfDay(slots[i].start) /\ j < i
    IN  [k \in 1..Cardinality(S) |->
            CHOOSE i \in S : Cardinality({j \in S : Before(j, i)}) = k - 1]

\* variant of get_test_length_for_tutor: no case for a tutor without slots, the
\* "+ 1" of the formula is returned
get_test_length_for_tutor_unguarded(tutor) ==
    LET sorted == SortedSlotsOf(tutor)
    IN  IF Len(sorted) = 0 THEN 1
        ELSE LET min_slot == slots[sorted[1]]
                 max_slot == slots[sorted[Len(sorted)]]
             IN  (DeltaMinutes(max_slot.start - min_slot.start) \div slotlen) + 1

get_test_length_for_tutor(tutor) ==
    LET sorted == SortedSlotsOf(tutor)
    IN  IF Len(sorted) = 0 THEN 0
        ELSE LET min_slot == slots[sorted[1]]
                 max_slot == slots[sorted[Len(sorted)]]
             IN  (DeltaMinutes(max_slot.start - min_slot.start) \div slotlen) + 1

count_room_changes ==
    Cardinality({rc \in (1..Rows) \X (1..(Cols - 1)) :
        /\ slot_matrix[rc[1]][rc[2]] # 0
        /\ slot_matrix[rc[1]][rc[2] + 1] # 0
        /\ slots[slot_matrix[rc[1]][rc[2]]].tutor
               # slots[slot_matrix[rc[1]][rc[2] + 1]].tutor})

\* holes of one tutor: the inner loop of count_tutor_holes
HolesOfTutor(tutor) ==
    LET sorted == SortedSlotsOf(tutor)
    IN  SumTo([i \in 1..(Len(sorted) - 1) |->
                 IF slots[sorted[i]].start = slots[sorted[i + 1]].start THEN 0
                 ELSE (DeltaMinutes(slots[sorted[i + 1]].start - slots[sorted[i]].start)
                          \div slotlen) - 1],
              Len(sorted) - 1)

count_tutor_holes ==
    SumTo([k \in 1..Len(tutors) |-> HolesOfTutor(tutors[k])], Len(tutors))

pause_offset_to_testcenter_of_tutor(tutor) == 0

\* variant of SumUpDifferences: the inner loop starts at 0, every pair is
\* counted in both orders
SumUpDifferencesBothOrders(cnt) ==
    LET n == Len(cnt)
    IN  SumTo([i \in 1..n |-> SumTo([j \in 1..n |-> Abs(cnt[i] - cnt[j])], n)], n)

\* the loop "for i, for j in range(i, len): sum += abs(cnt[i] - cnt[j])"
SumUpDifferences(cnt) ==
    LET n == Len(cnt)
    IN  SumTo([i \in 1..n |->
                 SumTo([j \in 1..n |-> IF j >= i THEN Abs(cnt[i] - cnt[j]) ELSE 0], n)],
              n)

sum_up_slot_differences ==
    SumUpDifferences([k \in 1..Len(tutors) |-> count_slots_of_tutor(tutors[k])])

sum_up_testlength_differences ==
    SumUpDifferences([k \in 1..Len(tutors) |-> get_test_length_for_tutor(tutors[k])])

\* get_test_length: the longest row among all rooms but the last
get_test_length == IF Len(rooms) - 1 >= 1 THEN Cols ELSE 0

\* print_measures(timetable): the numbers of the report
print_measures ==
    [slots_of |-> [k \in 1..Len(tutors) |-> count_slots_of_tutor(tutors[k])],
     testlen_of |-> [k \in 1..Len(tutors) |-> get_test_length_for_tutor(tutors[k])],
     overlaps_of |-> [k \in 1..Len(tutors) |-> count_overlaps_of_tutor(tutors[k])],
     total |-> <<Len(slots), get_test_length, count_overlaps>>,
     slot_difference |-> <<sum_up_slot_differences, (Len(tutors) - 1) * Len(slots)>>,
     test_length_difference |->
         <<sum_up_testlength_differences, (Len(tutors) - 1) * Len(slots)>>,
     room_changes |-> <<count_room_changes, Len(slots) - Len(rooms)>>]

----------------------------------------------------------------------------
(* evaluation.py: piecewise_linear *)

\* the loop "for i, for j, if i != j: reached -= abs(cnt[i] - cnt[j])"
SumOfDifferences(cnt) ==
    LET n == Len(cnt)
    IN  SumTo([i \in 1..n |->
                 SumTo([j \in 1..n |-> IF i # j THEN Abs(cnt[i] - cnt[j]) ELSE 0], n)],
              n)

\* maximum of the criterion "non-overlapping slots"
OverlapMaximum == Len(slots) * Len(tutors)

\* the criteria in the order they are scored: weight (in tenths), reached, maximum
Criteria ==
    LET n == Len(slots)
        slot_cnt == [k \in 1..Len(tutors) |-> count_slots_of_tutor(tutors[k])]
        len_cnt == [k \in 1..Len(tutors) |-> get_test_length_for_tutor(tutors[k])]
        pauses == SumTo([k \in 1..Len(tutors) |->
                            pause_offset_to_testcenter_of_tutor(tutors[k])], Len(tutors))
    IN  << [weight |-> 50, reached |-> n * Len(tutors) - SumOfDifferences(slot_cnt),
            maximum |-> n * Len(tutors)],
           [weight |-> 40, reached |-> n * Len(tutors) - SumOfDifferences(len_cnt),
            maximum |-> n * Len(tutors)],
           [weight |-> 100, reached |-> OverlapMaximum - count_overlaps,
            maximum |-> OverlapMaximum],
           [weight |-> 8, reached |-> (n - Len(rooms) * 2) - count_room_changes,
            maximum |-> n - Len(rooms) * 2],
           [weight |-> 5, reached |-> n - count_tutor_holes, maximum |-> n],
           [weight |-> 0, reached |-> n - pauses, maximum |-> n] >>

RECURSIVE GCD(_, _)
GCD(a, b) == IF b = 0 THEN a ELSE GCD(b, a % b)

\* the fraction n / d in lowest terms, with a positive denominator
Fraction(n, d) ==
    LET g == GCD(Abs(n), Abs(d))
        sign == IF d < 0 THEN -1 ELSE 1
    IN  [num |-> (sign * n) \div g, den |-> (sign * d) \div g]

RECURSIVE ScoreAfter(_, _)
\* the score after the first k criteria, in tenths, as an exact fraction
\* (score += weight * reached / maximum, a float division in the code)
ScoreAfter(cs, k) ==
    IF k = 0 THEN [num |-> 0, den |-> 1]
    ELSE LET sc == ScoreAfter(cs, k - 1)
         IN  Fraction(sc.num * cs[k].maximum + cs[k].weight * cs[k].reached * sc.den,
                      sc.den * cs[k].maximum)

\* piecewise_linear(timetable): the criteria it logged, and the score or the
\* exception of the first division by a zero maximum
piecewise_linear ==
    LET cs == Criteria
        zero == {k \in 1..Len(cs) : cs[k].maximum = 0}
    IN  IF zero = {}
        THEN [res |-> "ok", log |-> cs, score |-> ScoreAfter(cs, Len(cs))]
        ELSE [res |-> "ZeroDivisionError",
              log |-> SubSeq(cs, 1, CHOOSE k \in zero : \A k2 \in zero : k <= k2)]

----------------------------------------------------------------------------
(* evaluation.py: the fuzzy strategy. Membership degrees are exact          *)
(* fractions (floats in the code); abscissae are counted in hundredths so   *)
(* that range * 0.15 and the like stay integers.                            *)

Zero == [num |-> 0, den |-> 1]
One == [num |-> 1, den |-> 1]

FLess(p, q) == p.num * q.den < q.num * p.den
FMin(p, q) == IF FLess(q, p) THEN q ELSE p
FMax(p, q) == IF FLess(p, q) THEN q ELSE p

\* skfuzzy.trimf at the point x for the triangle [a, b, c]
trimf(x, a, b, c) ==
    IF x = b THEN One
    ELSE IF a < x /\ x < b THEN Fraction(x - a, b - a)
    ELSE IF b < x /\ x < c THEN Fraction(c - x, c - b)
    ELSE Zero

\* skfuzzy.trapmf at the point x for the trapezoid [a, b, c, d]
trapmf(x, a, b, c, d) ==
    IF x < a \/ x > d THEN Zero
    ELSE IF x >= c THEN trimf(x, c, c, d)
    ELSE IF x <= b THEN trimf(x, a, b, b)
    ELSE One

\* upper end of score_range
ScoreRange == 100

\* the upper ends of the ranges of the four inputs and of the score
\* (every range starts at 0; the universe of a range [0, n] is arange(0, n, 1))
FuzzyRanges ==
    [slotdiff |-> (Len(tutors) - 1) * Len(slots),
     testdiff |-> (Len(tutors) - 1) * Len(slots),
     overlaps |-> count_possible_overlaps,
     rchanges |-> Len(slots) - Len(rooms),
     score |-> ScoreRange]

\* variant of OverlapTerms: 'ok' falls off over the whole range
OverlapTermsWideOk(rg) ==
    [unacceptable |-> <<100, 100 * rg.overlaps, 100 * rg.overlaps>>,
     ok |-> <<0, 0, 100 * rg.overlaps>>]

\* the triangles [a, b, c] of the terms of overlaps, in hundredths
OverlapTerms(rg) ==
    [unacceptable |-> <<100, 100 * rg.overlaps, 100 * rg.overlaps>>,
     ok |-> <<0, 0, 100>>]

\* the triangles [a, b, c] of the terms of the inputs, in hundredths, for a
\* table rg of ranges
InputTerms(rg) ==
    [overlaps |-> OverlapTerms(rg),
     slotdiff |-> [poor |-> <<15 * rg.slotdiff, 100 * rg.slotdiff, 100 * rg.slotdiff>>,
                   average |-> <<3 * rg.slotdiff, 10 * rg.slotdiff, 17 * rg.slotdiff>>,
                   good |-> <<0, 0, 5 * rg.slotdiff>>],
     testdiff |-> [poor |-> <<30 * rg.testdiff, 100 * rg.testdiff, 100 * rg.testdiff>>,
                   average |-> <<5 * rg.testdiff, 20 * rg.testdiff, 35 * rg.testdiff>>,
                   good |-> <<0, 0, 10 * rg.testdiff>>],
     rchanges |-> [poor |-> <<20 * rg.rchanges, 100 * rg.rchanges, 100 * rg.rchanges>>,
                   average |-> <<5 * rg.rchanges, 15 * rg.rchanges, 25 * rg.rchanges>>,
                   good |-> <<0, 0, 10 * rg.rchanges>>]]

ScoreTerms == {"unacceptable", "poor", "average", "good", "superior"}

\* membership of the score x (a point of the universe) in a term of the score
ScoreMF(term, x) ==
    LET r == ScoreRange
    IN  CASE term = "unacceptable" -> trapmf(100 * x, 0, 0, 0, 25 * r)
          [] term = "poor" -> trimf(100 * x, 25 * r, 50 * r, 50 * r)
          [] term = "average" -> trimf(100 * x, 50 * r, 75 * r, 75 * r)
          [] term = "good" -> trimf(100 * x, 75 * r, 90 * r, 90 * r)
          [] term = "superior" -> trimf(100 * x, 90 * r, 100 * r, 100 * r)

\* score.universe = arange(0, 100, 1)
ScoreUniverse == 0..(ScoreRange - 1)

\* the membership functions of the score over its universe
ScoreMFs == [term \in ScoreTerms |-> [x \in ScoreUniverse |-> ScoreMF(term, x)]]

\* trimf and trapmf assert a <= b <= c (<= d)
Ordered(abc) == \A i \in 1..(Len(abc) - 1) : abc[i] <= abc[i + 1]

\* the inputs in the order fuzzy_init gives them their membership functions
FuzzyInputNames == <<"overlaps", "slotdiff", "testdiff", "rchanges">>

\* fuzzy_init(timetable): the table it leaves in fs, or the exception of the
\* first input it cannot set up: the assertion of a membership function whose
\* corners are not ordered or, for an input whose universe arange(0, n, 1) is
\* empty, the ValueError of the library. Whether the library rejects a
\* membership function over an empty universe depends on its version: strict
\* says that it does; otherwise the error shows when fuzzy() sets the input.
fuzzy_init(strict) ==
    LET rg == FuzzyRanges
        terms == InputTerms(rg)
        unordered(v) == \E t \in DOMAIN terms[v] : ~Ordered(terms[v][t])
        failing == {i \in 1..Len(FuzzyInputNames) :
                       \/ unordered(FuzzyInputNames[i])
                       \/ strict /\ rg[FuzzyInputNames[i]] <= 0}
    IN  IF failing = {}
        THEN [res |-> "ok", fs |-> [scoring_ctrl |-> rg, score |-> rg.score]]
        ELSE LET v == FuzzyInputNames[CHOOSE i \in failing : \A i2 \in failing : i <= i2]
             IN  [res |-> IF unordered(v) THEN "AssertionError" ELSE "ValueError",
                  fs |-> fs]

\* the measures fuzzy() feeds into the control system
FuzzyInputs ==
    [overlaps |-> count_overlaps,
     slotdiff |-> sum_up_slot_differences,
     testdiff |-> sum_up_testlength_differences,
     rchanges |-> count_room_changes]

\* an input is clipped to the bounds of its universe 0 .. n - 1
ClipToBounds(x, n) == IF x > n - 1 THEN n - 1 ELSE IF x < 0 THEN 0 ELSE x

\* degrees of membership of the inputs, clipped, in the terms of a table rg
Memberships(rg, inputs) ==
    LET terms == InputTerms(rg)
    IN  [v \in DOMAIN terms |->
            [t \in DOMAIN terms[v] |->
                trimf(100 * ClipToBounds(inputs[v], rg[v]),
                      terms[v][t][1], terms[v][t][2], terms[v][t][3])]]

FAnd(S) == CHOOSE p \in S : \A q \in S : ~FLess(q, p)
FOr(S) == CHOOSE p \in S : \A q \in S : ~FLess(p, q)

\* the nine rules of fuzzy_init: firing strength (and = min, or = max) and the
\* term of the score each rule concludes
Rules(degree) ==
    LET m(v, t) == degree[v][t]
        any(v) == FOr({m(v, "poor"), m(v, "average"), m(v, "good")})
        ok == m("overlaps", "ok")
    IN  << [strength |-> FAnd({m("overlaps", "unacceptable"), any("slotdiff"),
                               any("testdiff"), any("rchanges")}),
            term |-> "unacceptable"],
           [strength |-> FAnd({ok, m("slotdiff", "good"), m("testdiff", "good"),
                               m("rchanges", "good")}),
            term |-> "superior"],
           [strength |-> FAnd({ok, FOr({m("slotdiff", "poor"), m("rchanges", "poor")})}),
            term |-> "poor"],
           [strength |-> FAnd({ok, FOr({m("slotdiff", "average"), m("rchanges", "average")}),
                               m("testdiff", "poor")}),
            term |-> "poor"],
           [strength |-> FAnd({ok, FOr({m("slotdiff", "average"), m("rchanges", "average")}),
                               m("testdiff", "average")}),
            term |-> "average"],
           [strength |-> FAnd({ok, m("slotdiff", "good"),
                               FOr({m("rchanges", "average"), m("rchanges", "good")})}),
            term |-> "good"],
           [strength |-> FAnd({ok, m("slotdiff", "good"),
                               FOr({m("rchanges", "average"), m("rchanges", "good")})}),
            term |-> "good"],
           [strength |-> FAnd({ok, m("slotdiff", "good"), m("rchanges", "good"),
                               FOr({m("testdiff", "poor"), m("testdiff", "average")})}),
            term |-> "good"],
           [strength |-> FAnd({ok, m("slotdiff", "good"), m("rchanges", "good"),
                               FOr({m("testdiff", "average"), m("testdiff", "good")})}),
            term |-> "superior"] >>

\* the cut of a term of the score: the strongest rule that concludes it
Cut(rules, term) ==
    FOr({Zero} \cup {rules[i].strength : i \in {j \in 1..Len(rules) : rules[j].term = term}})

LCM(a, b) == (a \div GCD(a, b)) * b

RECURSIVE LCMOf(_)
LCMOf(S) ==
    IF S = {} THEN 1
    ELSE LET d == CHOOSE d \in S : TRUE IN LCM(d, LCMOf(S \ {d}))

RECURSIVE SumOver(_, _, _)
\* sum of f[lo .. hi]
SumOver(f, lo, hi) ==
    IF lo > hi THEN 0
    ELSE IF lo = hi THEN f[lo]
    ELSE LET mid == (lo + hi) \div 2
         IN  SumOver(f, lo, mid) + SumOver(f, mid + 1, hi)

\* the denominators of the membership degrees of the score
ScoreDens == {ScoreMFs[term][x].den : term \in ScoreTerms, x \in ScoreUniverse}

\* skfuzzy.defuzz(universe, mfx, 'centroid') over the universe of the score:
\* sum(x * mfx) / sum(mfx), where mfx is the aggregated output, at each point
\* the largest of the terms' membership functions cut at the strength of
\* their rules; mfx is counted in 1/unit
Centroid(rules) ==
    LET cut == [term \in ScoreTerms |-> Cut(rules, term)]
        unit == LCMOf({cut[term].den : term \in ScoreTerms} \cup {LCMOf(ScoreDens)})
        scaled(p) == p.num * (unit \div p.den)
        fired == {term \in ScoreTerms : cut[term] # Zero}
        mfx == [x \in ScoreUniverse |->
                   Max({0} \cup {scaled(FMin(cut[term], ScoreMFs[term][x])) : term \in fired})]
    IN  Fraction(SumOver([x \in ScoreUniverse |-> x * mfx[x]], 0, ScoreRange - 1),
                 SumOver(mfx, 0, ScoreRange - 1))

\* variant of fuzzy: fs is not consulted, the score of an empty rule base is
\* returned
fuzzy_unchecked == [res |-> "ok", rules |-> <<>>, score |-> Zero]

\* fuzzy(timetable): the firing strengths of the rules and the score, or the
\* exception: no table in fs (KeyError), an input whose universe is empty
\* (ValueError), no rule fires (the assertion of defuzz)
fuzzy ==
    IF "scoring_ctrl" \notin DOMAIN fs THEN [res |-> "KeyError"]
    ELSE LET rg == fs["scoring_ctrl"]
         IN  IF \E v \in DOMAIN FuzzyInputs : rg[v] <= 0 THEN [res |-> "ValueError"]
             ELSE LET rules == Rules(Memberships(rg, FuzzyInputs))
                  IN  IF \A i \in 1..Len(rules) : rules[i].strength = Zero
                      THEN [res |-> "AssertionError", rules |-> rules]
                      ELSE [res |-> "ok", rules |-> rules,
                            score |-> Centroid(rules)]

----------------------------------------------------------------------------
(* generate.py: Timetable.apply_genome *)

\* genes are drawn from 0 upwards (Python would also take -len .. -1)
ValidIndex(g) == g \in 0..(Len(tutors) - 1)

\* variant of PutTutors: the loop misses the last slot
PutTutorsButLast(genome) ==
    [s \in 1..Len(slots) |->
        IF s < Len(slots) /\ s <= Len(genome)
        THEN [slots[s] EXCEPT !.tutor = tutors[genome[s] + 1]]
        ELSE slots[s]]

\* tutor fields after "for s in range(len(self._slots)): set_tutor(tutors[genome[s]])":
\* the loop stops at the first gene that is no index of the tutor list
PutTutors(genome) ==
    LET bad == {s \in 1..Len(genome) : ~ValidIndex(genome[s])}
        stop == IF bad = {} THEN Len(genome) + 1
                ELSE CHOOSE s \in bad : \A s2 \in bad : s <= s2
    IN  [s \in 1..Len(slots) |->
            IF s < stop THEN [slots[s] EXCEPT !.tutor = tutors[genome[s] + 1]]
            ELSE slots[s]]

\* variant of apply_genome: the length is checked after the tutors were put
\* into the slots
apply_genome_late_check(genome) ==
    [slots |-> PutTutors(genome),
     res |-> IF Len(genome) # Len(slots) THEN "RuntimeError"
             ELSE IF \A s \in 1..Len(genome) : ValidIndex(genome[s])
                  THEN "ok" ELSE "IndexError"]

\* the outcome of apply_genome(genome): the slots afterwards and the exception
apply_genome(genome) ==
    IF Len(genome) # Len(slots)
    THEN [slots |-> slots, res |-> "RuntimeError"]
    ELSE [slots |-> PutTutors(genome),
          res |-> IF \A s \in 1..Len(genome) : ValidIndex(genome[s])
                  THEN "ok" ELSE "IndexError"]

----------------------------------------------------------------------------
(* generate.py: the measures of the class Timetable and eval_func. The      *)
(* methods read the slots of the timetable; sl is that list (self._slots)   *)
(* at the time of the call, the grid and the tutor list are the timetable's *)

Timetable_count_slots_of_tutor(sl, tutor) ==
    Cardinality({i \in 1..Len(sl) : sl[i].tutor = tutor})

\* the column is searched for in the first row only
Timetable_get_concurrent_slots(sl, start_time) ==
    LET found == {c1 \in 1..Cols :
                     /\ slot_matrix[1][c1] # 0
                     /\ sl[slot_matrix[1][c1]].start = start_time}
    IN  IF found = {} THEN <<>>
        ELSE ColumnSlots(CHOOSE c1 \in found : \A c2 \in found : c1 <= c2)

Timetable_count_overlaps_of_tutor(sl, tutor) ==
    Cardinality({i \in 1..Len(sl) :
        /\ sl[i].tutor = tutor
        /\ Len(SelectSeq(Timetable_get_concurrent_slots(sl, sl[i].start),
                         LAMBDA j : sl[j].tutor = tutor)) > 1})

\* sorted(filter(tutor's slots), key = start.hour*60 + start.minute); stable
Timetable_sorted_slots(sl, tutor) ==
    LET S == {i \in 1..Len(sl) : sl[i].tutor = tutor}
        Before(j, i) ==
            \/ MinuteOfDay(sl[j].start) < MinuteOfDay(sl[i].start)
            \/ MinuteOfDay(sl[j].start) = MinuteOfDay(sl[i].start) /\ j < i
    IN  [k \in 1..Cardinality(S) |->
            CHOOSE i \in S : Cardinality({j \in S : Before(j, i)}) = k - 1]

Timetable_get_test_length_for_tutor(sl, tutor) ==
    LET sorted == Timetable_sorted_slots(sl, tutor)
    IN  IF Len(sorted) = 0 THEN 0
        ELSE (DeltaMinutes(sl[sorted[Len(sorted)]].start - sl[sorted[1]].start)
                 \div slotlen) + 1

Timetable_count_tutor_changes(sl) ==
    Cardinality({rc \in (1..Rows) \X (1..(Cols - 1)) :
        /\ slot_matrix[rc[1]][rc[2]] # 0
        /\ slot_matrix[rc[1]][rc[2] + 1] # 0
        /\ sl[slot_matrix[rc[1]][rc[2]]].tutor # sl[slot_matrix[rc[1]][rc[2] + 1]].tutor})

Timetable_count_tutor_holes(sl) ==
    SumTo([k \in 1..Len(tutors) |->
              LET sorted == Timetable_sorted_slots(sl, tutors[k])
              IN  SumTo([i \in 1..(Len(sorted) - 1) |->
                            IF sl[sorted[i]].start = sl[sorted[i + 1]].start THEN 0
                            ELSE (DeltaMinutes(sl[sorted[i + 1]].start - sl[sorted[i]].start)
                                     \div slotlen) - 1],
                        Len(sorted) - 1)],
          Len(tutors))

Timetable_pause_offset_to_testcenter_of_tutor(sl, tutor) == 0

\* the criteria of eval_func in the order they are scored: weight (in tenths),
\* reached, maximum
EvalCriteria(sl) ==
    LET n == Len(sl)
        nt == Len(tutors)
        slot_cnt == [k \in 1..nt |-> Timetable_count_slots_of_tutor(sl, tutors[k])]
        len_cnt == [k \in 1..nt |-> Timetable_get_test_length_for_tutor(sl, tutors[k])]
        overlaps == SumTo([k \in 1..nt |->
                              Timetable_count_overlaps_of_tutor(sl, tutors[k])], nt)
        pauses == SumTo([k \in 1..nt |->
                            Timetable_pause_offset_to_testcenter_of_tutor(sl, tutors[k])], nt)
    IN  << [weight |-> 50, reached |-> n * nt - SumOfDifferences(slot_cnt),
            maximum |-> n * nt],
           [weight |-> 40, reached |-> n * nt - SumOfDifferences(len_cnt),
            maximum |-> n * nt],
           [weight |-> 100, reached |-> n * (Len(rooms) - 1) - overlaps,
            maximum |-> n * (Len(rooms) - 1)],
           [weight |-> 8,
            reached |-> (n - Len(rooms) * 2) - Timetable_count_tutor_changes(sl),
            maximum |-> n - Len(rooms) * 2],
           [weight |-> 5, reached |-> n - Timetable_count_tutor_holes(sl), maximum |-> n],
           [weight |-> 0, reached |-> n - pauses, maximum |-> n] >>

\* eval_func after its call of apply_genome: the score (in tenths, as an exact
\* fraction where the code adds floats) of the timetable whose slots are sl, or
\* the exception of the first division by a zero maximum
EvalScore(sl) ==
    LET cs == EvalCriteria(sl)
    IN  IF \E k \in 1..Len(cs) : cs[k].maximum = 0
        THEN [res |-> "ZeroDivisionError"]
        ELSE [res |-> "ok", score |-> ScoreAfter(cs, Len(cs))]

\* variant of eval_func: a slot that already has a tutor keeps it
eval_func_keeping_tutors(chromosome) ==
    LET out == apply_genome(chromosome)
        kept == [s \in 1..Len(slots) |->
                    IF slots[s].tutor = NotYetSet THEN out.slots[s] ELSE slots[s]]
    IN  IF out.res # "ok" THEN [res |-> out.res, slots |-> out.slots]
        ELSE [slots |-> kept] @@ EvalScore(kept)

\* eval_func(chromosome): the chromosome is applied to the global timetable t,
\* then t is scored; the outcome and the slots of t afterwards
eval_func(chromosome) ==
    LET out == apply_genome(chromosome)
    IN  IF out.res # "ok" THEN [res |-> out.res, slots |-> out.slots]
        ELSE [slots |-> out.slots] @@ EvalScore(out.slots)

----------------------------------------------------------------------------
(* Timetable.print_timetable: the lines written to the file. Times are      *)
(* written with strftime('%H:%M'), i.e. as the minute of the day.            *)

\* "room,tutor,from,to" and the line end: one more newline ends a room
Line(r, s_last, to, sep) ==
    [room |-> rooms[r], tutor |-> slots[s_last].tutor,
     from |-> MinuteOfDay(slots[s_last].start), to |-> MinuteOfDay(to), sep |-> sep]

RECURSIVE PrintRow(_, _, _, _, _)
\* the loop over the columns c (from 1) of row r; s and s_last are indices
\* into slots, 0 for a variable not bound (s) or None (s_last)
PrintRow(r, c, s, s_last, lines) ==
    IF c > Cols THEN [s |-> s, s_last |-> s_last, lines |-> lines]
    ELSE IF slot_matrix[r][c] = 0 THEN PrintRow(r, c + 1, s, s_last, lines)
    ELSE LET cur == slot_matrix[r][c]
             first == IF s_last = 0 THEN cur ELSE s_last
         IN  IF slots[cur].tutor # slots[first].tutor
             THEN PrintRow(r, c + 1, cur, cur,
                           Append(lines, Line(r, first, slots[cur].start, "\n")))
             ELSE PrintRow(r, c + 1, cur, first, lines)

RECURSIVE PrintRooms(_, _, _)
\* the loop over the rows r (from 1); s survives from one row to the next
PrintRooms(r, s, lines) ==
    IF r > Rows THEN [res |-> "ok", lines |-> lines]
    ELSE LET row == PrintRow(r, 1, s, 0, lines)
         IN  IF row.s = 0
             THEN [res |-> "UnboundLocalError", lines |-> row.lines]
             ELSE IF row.s_last = 0
             THEN [res |-> "AttributeError", lines |-> row.lines]
             ELSE PrintRooms(r + 1, row.s,
                             Append(row.lines,
                                    Line(r, row.s_last, slots[row.s].start + slotlen,
                                         "\n\n")))

print_timetable == PrintRooms(1, 0, <<>>)

----------------------------------------------------------------------------
(* Calls on a constructed timetable *)

SlotStarts == {slots[i].start : i \in 1..Len(slots)}

GetConcurrentSlots(start_time) ==
    /\ pc = "constructed"
    /\ last' = [op |-> "get_concurrent_slots", res |-> "ok", start_time |-> start_time,
                slots |-> get_concurrent_slots(start_time)]
    /\ UNCHANGED <<pc, err, start, timetable, fs>>

\* t.apply_genome(genome); a failed call leaves its exception
ApplyGenome(genome) ==
    LET out == apply_genome(genome)
    IN  /\ pc = "constructed"
        /\ slots' = out.slots
        /\ last' = IF out.res = "ok"
                   THEN [op |-> "apply_genome", res |-> "ok", genome |-> genome]
                   ELSE [op |-> "apply_genome", res |-> out.res]
        /\ UNCHANGED <<pc, err, start, test, rooms, tutors, num_groups, testlen,
                       slotlen, slot_matrix, fs>>

\* variant of PrintMeasures: the slots of the timetable are sorted in place by
\* the sort key of the measures
PrintMeasuresSortingInPlace ==
    LET Before(j, i) ==
            \/ MinuteOfDay(slots[j].start) < MinuteOfDay(slots[i].start)
            \/ MinuteOfDay(slots[j].start) = MinuteOfDay(slots[i].start) /\ j < i
        perm == [k \in 1..Len(slots) |->
                    CHOOSE i \in 1..Len(slots) :
                        Cardinality({j \in 1..Len(slots) : Before(j, i)}) = k - 1]
    IN  /\ pc = "constructed"
        /\ last' = [op |-> "print_measures", res |-> "ok"] @@ print_measures
        /\ slots' = [k \in 1..Len(slots) |-> slots[perm[k]]]
        /\ UNCHANGED <<pc, err, start, test, rooms, tutors, num_groups, testlen,
                       slotlen, slot_matrix, fs>>

PrintMeasures ==
    /\ pc = "constructed"
    /\ last' = [op |-> "print_measures", res |-> "ok"] @@ print_measures
    /\ UNCHANGED <<pc, err, start, timetable, fs>>

PiecewiseLinear ==
    /\ pc = "constructed"
    /\ last' = [op |-> "piecewise_linear"] @@ piecewise_linear
    /\ UNCHANGED <<pc, err, start, timetable, fs>>

PrintTimetable ==
    /\ pc = "constructed"
    /\ last' = [op |-> "print_timetable"] @@ print_timetable
    /\ UNCHANGED <<pc, err, start, timetable, fs>>

\* eval_func(chromosome), called by the optimizer
EvalFunc(chromosome) ==
    /\ pc = "constructed"
    /\ \E out \in {eval_func(chromosome)} :
           /\ slots' = out.slots
           /\ last' = [op |-> "eval_func", genome |-> chromosome, res |-> out.res,
                       score |-> IF out.res = "ok" THEN out.score ELSE Zero]
    /\ UNCHANGED <<pc, err, start, test, rooms, tutors, num_groups, testlen,
                   slotlen, slot_matrix, fs>>

FuzzyInit ==
    /\ pc = "constructed"
    /\ \E strict \in BOOLEAN :
           /\ fs' = fuzzy_init(strict).fs
           /\ last' = [op |-> "fuzzy_init", res |-> fuzzy_init(strict).res]
    /\ UNCHANGED <<pc, err, start, timetable>>

Fuzzy ==
    /\ pc = "constructed"
    /\ \E out \in {fuzzy} : last' = [op |-> "fuzzy"] @@ out
    /\ UNCHANGED <<pc, err, start, timetable, fs>>

----------------------------------------------------------------------------
Init ==
    /\ pc = "start"
    /\ err = "none"
    /\ start = 0
    /\ test = 0
    /\ rooms = <<>>
    /\ tutors = <<>>
    /\ num_groups = 0
    /\ testlen = 0
    /\ slotlen = 0
    /\ slots = <<>>
    /\ slot_matrix = <<>>
    /\ last = NoCall
    /\ fs = <<>>

(* Construction only: every configuration within the Build bounds, by a     *)
(* direct call of the constructor or through the script                     *)

Construct ==
    \E st \in Starts, t \in 1..3, nr \in 1..BuildMaxRooms,
       nt \in 1..BuildMaxTutors, g \in 0..BuildMaxGroups :
        TimetableInit(st, t, SubSeq(RoomNames, 1, nr), SubSeq(DefaultTutors, 1, nt), g)

RunScript ==
    \E st \in Starts, t \in 1..2, nt \in 1..BuildMaxTutors, g \in 0..BuildMaxGroups :
        Main(st, t, SubSeq(DefaultTutors, 1, nt), g)

QueryConcurrentSlots ==
    \E st \in SlotStarts \cup {start} : GetConcurrentSlots(st)

NextBuild == Construct \/ RunScript \/ QueryConcurrentSlots

SpecBuild == Init /\ [][NextBuild]_vars

(* The optimizer's calls on one timetable: every configuration within      *)
(* MaxRooms and MaxLoad, every chromosome on the fresh timetable and then   *)
(* chromosomes that differ from the applied one in at most one gene         *)

NewTimetable ==
    \E st \in Starts, t \in 1..2, nr \in 1..MaxRooms, nt \in 1..MaxLoad, g \in 1..MaxLoad :
        /\ g * nt <= MaxLoad
        /\ TimetableInit(st, t, SubSeq(RoomNames, 1, nr), SubSeq(DefaultTutors, 1, nt), g)

Fresh == \A i \in 1..Len(slots) : slots[i].tutor = NotYetSet

\* index of a tutor name in the tutor list (0 for a slot not yet set)
IndexOfTutor(name) ==
    IF name = NotYetSet THEN 0
    ELSE (CHOOSE k \in 1..Len(tutors) : tutors[k] = name) - 1

AppliedGenome == [s \in 1..Len(slots) |-> IndexOfTutor(slots[s].tutor)]

\* chromosomes of the right length with valid genes the optimizer passes next
Chromosomes ==
    IF Fresh THEN [1..Len(slots) -> 0..(Len(tutors) - 1)]
    ELSE {AppliedGenome} \cup
         {[AppliedGenome EXCEPT ![s] = g] :
             s \in 1..Len(slots), g \in 0..(Len(tutors) - 1)}

Apply == \E genome \in Chromosomes : ApplyGenome(genome)

Next ==
    \/ NewTimetable
    \/ Apply
    \/ PrintMeasures
    \/ PiecewiseLinear
    \/ PrintTimetable

Spec == Init /\ [][Next]_vars

(* The contract of apply_genome: the same calls, and chromosomes that break *)
(* the contract, on the timetables within ApplyMaxRooms and ApplyMaxLoad     *)

NewSmallTimetable ==
    \E t \in 1..2, nr \in 1..ApplyMaxRooms, nt \in 1..ApplyMaxLoad, g \in 1..ApplyMaxLoad :
        /\ g * nt <= ApplyMaxLoad
        /\ TimetableInit(480, t, SubSeq(RoomNames, 1, nr), SubSeq(DefaultTutors, 1, nt), g)

\* one gene short or one too many
WrongLength ==
    {[s \in 1..len |-> g] : len \in {Len(slots) - 1, Len(slots) + 1},
                            g \in 0..(Len(tutors) - 1)}

\* a last gene, or every gene, that is no index of the tutor list
WrongGene ==
    {[c EXCEPT ![Len(slots)] = Len(tutors)] : c \in Chromosomes}
        \cup {[s \in 1..Len(slots) |-> Len(tutors)]}

ApplyWrongLength == \E genome \in WrongLength : ApplyGenome(genome)

ApplyWrongGene == \E genome \in WrongGene : ApplyGenome(genome)

NextApply ==
    \/ NewSmallTimetable
    \/ Apply
    \/ ApplyWrongLength
    \/ ApplyWrongGene

SpecApply == Init /\ [][NextApply]_vars

(* The fuzzy strategy: fuzzy_init and fuzzy in any order, before and after   *)
(* a chromosome is applied, on the timetables within FuzzyMaxRooms and       *)
(* FuzzyMaxLoad                                                              *)

NewFuzzyTimetable ==
    \E t \in 1..2, nr \in 1..FuzzyMaxRooms, nt \in 1..FuzzyMaxLoad, g \in 1..FuzzyMaxLoad :
        /\ g * nt <= FuzzyMaxLoad
        /\ TimetableInit(480, t, SubSeq(RoomNames, 1, nr), SubSeq(DefaultTutors, 1, nt), g)

\* one chromosome, any, is applied to the fresh timetable
ApplyFirst == Fresh /\ Apply

NextFuzzy ==
    \/ NewFuzzyTimetable
    \/ ApplyFirst
    \/ FuzzyInit
    \/ Fuzzy

SpecFuzzy == Init /\ [][NextFuzzy]_vars

(* The optimizer's evaluations: chromosomes are applied and evaluated in    *)
(* any order on the timetables within EvalMaxRooms and EvalMaxLoad          *)

NewEvalTimetable ==
    \E t \in 1..2, nr \in 1..EvalMaxRooms, nt \in 1..EvalMaxLoad, g \in 1..EvalMaxLoad :
        /\ g * nt <= EvalMaxLoad
        /\ TimetableInit(480, t, SubSeq(RoomNames, 1, nr), SubSeq(DefaultTutors, 1, nt), g)

Evaluate == \E genome \in Chromosomes : EvalFunc(genome)

NextEval ==
    \/ NewEvalTimetable
    \/ Apply
    \/ Evaluate

SpecEval == Init /\ [][NextEval]_vars

----------------------------------------------------------------------------
(* Properties of the construction (checked under SpecBuild) *)

Constructed == pc = "constructed"

\* slots of room q (1-based), in time order
RoomSlots(q) == SelectSeq(slot_matrix[q], LAMBDA i : i # 0)

\* C3: constructing a Timetable with fewer tutors than rooms fails, so every
\* constructed Timetable has at least as many tutors as rooms.
C3_TooFewTutorsRejected == Constructed => Len(tutors) >= Len(rooms)

\* C4: the number of slots equals the sum of the slots the rooms hold and the
\* analytic total num_slots_total, which is 4 x groups in both variants; test 1
\* with 4 rooms and 6 groups has 24 slots, the rooms holding 8, 8, 4 and 4.
C4_SlotCount ==
    Constructed =>
        /\ Len(slots) = SumTo([q \in 1..Rows |-> Len(RoomSlots(q))], Rows)
        /\ Len(slots) = NumSlotsTotal(test, num_groups)
        /\ Len(slots) = 4 * num_groups
        /\ (test = 1 /\ Len(rooms) = 4 /\ num_groups = 6) =>
               /\ Len(slots) = 24
               /\ [q \in 1..Rows |-> Len(RoomSlots(q))] = <<8, 8, 4, 4>>

C4_Witness ==
    /\ Constructed
    /\ test = 1 /\ Len(rooms) = 4 /\ num_groups = 6
    /\ Len(slots) = 24

\* the k-th slot (k from 0) of every room r (from 0) starts at base + (r + k) x slotlen
StaggeredFrom(base) ==
    \A q \in 1..Rows : \A k1 \in 1..Len(RoomSlots(q)) :
        slots[RoomSlots(q)[k1]].start = base + ((q - 1) + (k1 - 1)) * slotlen

\* C5 (as claimed): in both variants the first slot of room r starts at the
\* nominal start T + r x slot length, the k-th at T + (r + k) x slot length.
C5_StaggeredFromNominal == Constructed => StaggeredFrom(start)

\* C5 (amended): that holds in variant 2 (slot length 30); in variant 1 (slot
\* length 20) every room starts one slot later, the k-th slot of room r at
\* T + (r + k + 1) x 20.
C5_StaggeredShifted ==
    Constructed =>
        /\ test = 2 => slotlen = 30 /\ StaggeredFrom(start)
        /\ test = 1 => slotlen = 20 /\ StaggeredFrom(start + 20)

C5_Witness ==
    /\ Constructed
    /\ test = 1
    /\ Len(rooms) >= 2
    /\ Len(RoomSlots(2)) >= 2
    /\ slots[RoomSlots(2)[2]].start = start + 60

\* C6: get_concurrent_slots(s), for the start s of a slot, returns exactly the
\* slots that start at s.
C6_ConcurrentSlotsExact ==
    (last.op = "get_concurrent_slots" /\ last.start_time \in SlotStarts) =>
        {last.slots[j] : j \in 1..Len(last.slots)} =
            {i \in 1..Len(slots) : slots[i].start = last.start_time}

----------------------------------------------------------------------------
(* Properties of apply_genome (checked under SpecApply) *)

\* C1: after apply_genome(chromosome) with a chromosome of the right length
\* and valid genes, the tutor of the i-th slot is tutors[chromosome[i]], and
\* reading the tutor fields back as indices gives the chromosome again.
C1_ApplyRoundTrip ==
    (last.op = "apply_genome" /\ last.res = "ok") =>
        /\ Len(last.genome) = Len(slots)
        /\ \A i \in 1..Len(slots) : slots[i].tutor = tutors[last.genome[i] + 1]
        /\ [i \in 1..Len(slots) |-> IndexOfTutor(slots[i].tutor)] = last.genome

C1_Witness ==
    /\ last.op = "apply_genome" /\ last.res = "ok"
    /\ Len(slots) >= 4
    /\ last.genome[1] # last.genome[Len(slots)]

\* C2: apply_genome with a chromosome of another length than the number of
\* slots fails with the length-mismatch error (RuntimeError) and changes no
\* slot: the timetable is as it was before the call.
C2_WrongLengthRejected ==
    [][\A genome \in WrongLength :
          ApplyGenome(genome) => (last'.res = "RuntimeError" /\ UNCHANGED timetable)]_vars

C2_Witness ==
    /\ last.op = "apply_genome" /\ last.res = "RuntimeError"
    /\ \E i \in 1..Len(slots), j \in 1..Len(slots) :
           /\ slots[i].tutor # NotYetSet
           /\ slots[j].tutor # NotYetSet
           /\ slots[i].tutor # slots[j].tutor

----------------------------------------------------------------------------
(* Properties of the measures and of the evaluation (checked under Spec) *)

\* every slot has a tutor of the tutor list
Complete == \A i \in 1..Len(slots) : slots[i].tutor # NotYetSet

\* the tutor holds two distinct slots with the same start
DoubleBooked(tutor) ==
    \E i \in SlotsOfTutor(tutor), j \in SlotsOfTutor(tutor) :
        i # j /\ slots[i].start = slots[j].start

\* C7: in a complete assignment, a tutor who holds two distinct slots with the
\* same start has count_overlaps_of_tutor >= 1 (and count_overlaps >= 1).
C7_DoubleBookingCounted ==
    (last.op = "print_measures" /\ Complete) =>
        \A k \in 1..Len(tutors) :
            DoubleBooked(tutors[k]) =>
                last.overlaps_of[k] >= 1 /\ last.total[3] >= 1

\* all tutors have the same slot count and the same test length, no tutor is
\* double-booked, no room changes its tutor and no tutor has a hole
Perfect ==
    /\ Complete
    /\ \A k \in 1..Len(tutors), l \in 1..Len(tutors) :
           /\ count_slots_of_tutor(tutors[k]) = count_slots_of_tutor(tutors[l])
           /\ get_test_length_for_tutor(tutors[k]) = get_test_length_for_tutor(tutors[l])
    /\ \A k \in 1..Len(tutors) : ~DoubleBooked(tutors[k])
    /\ count_room_changes = 0
    /\ count_tutor_holes = 0

\* C8: for such an assignment the piecewise-linear score is the sum of the
\* weights, 20.3 (203 tenths).
C8_PerfectScore ==
    (last.op = "piecewise_linear" /\ Perfect) =>
        (last.res = "ok" /\ last.score = [num |-> 203, den |-> 1])

\* C9: the criterion "no overlaps" is scored with maximum = slots x (rooms - 1):
\* it contributes 10.0 x (maximum - count_overlaps) / maximum.
C9_OverlapNormalisation ==
    (last.op = "piecewise_linear" /\ Complete /\ Len(last.log) >= 3) =>
        last.log[3] = [weight |-> 100,
                       reached |-> count_possible_overlaps - count_overlaps,
                       maximum |-> count_possible_overlaps]

\* C10: with at least as many tutors as rooms and at least one group, none of
\* the six maxima is zero and the evaluation never divides by zero.
C10_NoZeroMaximum ==
    (/\ last.op = "piecewise_linear"
     /\ Complete
     /\ Len(tutors) >= Len(rooms)
     /\ num_groups >= 1) =>
        /\ last.res # "ZeroDivisionError"
        /\ \A k \in 1..Len(last.log) : last.log[k].maximum # 0

----------------------------------------------------------------------------
(* Properties of print_timetable (checked under Spec) *)

\* a configuration the script accepts: tutors for every room, at least one group
Accepted == Len(tutors) >= Len(rooms) /\ num_groups >= 1

\* positions in room q's slots where a maximal run of one tutor starts
RunStarts(q) ==
    {k \in 1..Len(RoomSlots(q)) :
        k = 1 \/ slots[RoomSlots(q)[k]].tutor # slots[RoomSlots(q)[k - 1]].tutor}

\* the lines written for room q, in the order written
LinesOfRoom(q) == SelectSeq(last.lines, LAMBDA l : l.room = rooms[q])

\* room q's lines are its maximal same-tutor runs and partition its time span
RunsOfRoomWritten(q) ==
    LET rs == RoomSlots(q)
        ls == LinesOfRoom(q)
    IN  /\ Len(ls) = Cardinality(RunStarts(q))
        /\ \A i \in 1..Len(ls) : \E k \in RunStarts(q) :
               /\ ls[i].from = MinuteOfDay(slots[rs[k]].start)
               /\ ls[i].tutor = slots[rs[k]].tutor
        /\ \A i \in 1..(Len(ls) - 1) : ls[i].to = ls[i + 1].from
        /\ Len(rs) > 0 =>
               /\ ls[1].from = MinuteOfDay(slots[rs[1]].start)
               /\ ls[Len(ls)].to = MinuteOfDay(slots[rs[Len(rs)]].start + slotlen)

\* C11: for an accepted configuration and a complete assignment print_timetable
\* succeeds and writes, for every room (also one without groups), exactly one
\* line per maximal same-tutor run: the first starts at the room's first slot,
\* every line ends where the next starts, the last ends one slot length after
\* the room's last slot start.
C11_ExportRuns ==
    (last.op = "print_timetable" /\ Complete /\ Accepted) =>
        /\ last.res = "ok"
        /\ \A q \in 1..Rows : RunsOfRoomWritten(q)

----------------------------------------------------------------------------
(* Properties of the fuzzy strategy (checked under SpecFuzzy) *)

\* fuzzy_init has completed: the table of the control system is in fs
Initialised == "scoring_ctrl" \in DOMAIN fs

\* C12: fuzzy() called before fuzzy_init has completed ends in an exception
\* and returns no score; fuzzy() returns a score only when fuzzy_init has
\* completed before.
C12_FuzzyNeedsInit ==
    last.op = "fuzzy" =>
        /\ ~Initialised => (last.res = "KeyError" /\ "score" \notin DOMAIN last)
        /\ "score" \in DOMAIN last => (last.res = "ok" /\ Initialised)

C12_Witness ==
    /\ last.op = "fuzzy" /\ last.res = "KeyError"
    /\ Complete /\ Len(tutors) >= 2

\* the score p lies in lo .. hi
ScoreWithin(p, lo, hi) == lo * p.den <= p.num /\ p.num <= hi * p.den

----------------------------------------------------------------------------
(* Properties of the measures (checked under Spec) *)

\* the sum of f over the finite set S
RECURSIVE SumOfSet(_, _)
SumOfSet(f, S) ==
    IF S = {} THEN 0
    ELSE LET x == CHOOSE y \in S : TRUE IN f[x] + SumOfSet(f, S \ {x})

\* the slots that carry a tutor, counted from the slot sequence
SlotCount(tutor) == Cardinality({i \in 1..Len(slots) : slots[i].tutor = tutor})

\* C14: the slot difference reported by the measures is the sum of
\* |count_i - count_j| over the pairs of tutor indices i < j, each pair once; it
\* is 0 exactly when all tutors have the same number of slots, and it is 2 for
\* two tutors with 3 and 5 slots.
C14_SlotDifferences ==
    (pc = "constructed" /\ last.op = "print_measures") =>
        LET n == Len(tutors)
            cnt == [k \in 1..n |-> SlotCount(tutors[k])]
            pairs == {p \in (1..n) \X (1..n) : p[1] < p[2]}
            d == [p \in pairs |-> Abs(cnt[p[1]] - cnt[p[2]])]
        IN  /\ last.slot_difference[1] = SumOfSet(d, pairs)
            /\ last.slot_difference[1] = 0 <=> \A i, j \in 1..n : cnt[i] = cnt[j]
            /\ (n = 2 /\ cnt = <<3, 5>>) => last.slot_difference[1] = 2

C14_Witness ==
    /\ pc = "constructed"
    /\ last.op = "print_measures"
    /\ Len(tutors) = 2
    /\ SlotCount(tutors[1]) = 3
    /\ SlotCount(tutors[2]) = 5
    /\ last.slot_difference[1] = 2

\* tutors of the list without a slot in the current assignment
Idle == {k \in 1..Len(tutors) : SlotCount(tutors[k]) = 0}

\* C15: for a tutor of the list without any slot the report gives 0 slots, 0
\* overlaps and test length 0, no measure fails, and the tutor adds nothing to
\* the holes: count_tutor_holes is the sum over the tutors that have slots.
C15_IdleTutorZero ==
    (pc = "constructed" /\ last.op = "print_measures") =>
        /\ last.res = "ok"
        /\ \A k \in Idle :
               /\ last.slots_of[k] = 0
               /\ last.overlaps_of[k] = 0
               /\ last.testlen_of[k] = 0
               /\ HolesOfTutor(tutors[k]) = 0
        /\ LET busy == (1..Len(tutors)) \ Idle
           IN  count_tutor_holes = SumOfSet([k \in busy |-> HolesOfTutor(tutors[k])], busy)

C15_Witness ==
    /\ pc = "constructed"
    /\ last.op = "print_measures"
    /\ last.res = "ok"
    /\ Complete
    /\ Len(tutors) >= 2
    /\ Idle # {}
    /\ count_tutor_holes > 0
    /\ \A k \in Idle : last.testlen_of[k] = 0

----------------------------------------------------------------------------
(* Frame of the calls on a constructed timetable (checked under Spec) *)

\* C16: once the timetable is constructed no call changes the configuration,
\* the grid, the number or the order of the slots, or a slot's start or group;
\* a step that changes a tutor field is a call of apply_genome.
C16_OnlyTutorsChange ==
    [][pc = "constructed" =>
          /\ <<start, test, rooms, tutors, num_groups, testlen, slotlen, slot_matrix>>'
                 = <<start, test, rooms, tutors, num_groups, testlen, slotlen, slot_matrix>>
          /\ Len(slots') = Len(slots)
          /\ \A s \in 1..Len(slots) : [slots'[s] EXCEPT !.tutor = slots[s].tutor] = slots[s]
          /\ slots' # slots => last'.op = "apply_genome"]_vars

\* measures and a fitness evaluation were taken on an applied assignment
C16_Witness ==
    /\ pc = "constructed"
    /\ Complete
    /\ last.op = "piecewise_linear"
    /\ last.res = "ok"
    /\ Len(rooms) >= 2
    /\ Len(slots) >= 8

----------------------------------------------------------------------------
(* Distribution of the groups at construction (checked under SpecBuild) *)

\* groups whose slots lie in room q
GroupsInRoom(q) == {slots[RoomSlots(q)[k]].group : k \in 1..Len(RoomSlots(q))}

\* C17: with L lab rooms and G groups the first G mod L lab rooms hold
\* floor(G/L) + 1 groups and the other lab rooms floor(G/L); a lab room has
\* (testlen - slotlen)/slotlen slots for each of its groups; the preparation
\* room of test 2 has exactly G slots.
C17_GroupDistribution ==
    Constructed =>
        LET first == IF test = 2 THEN 1 ELSE 0
            L == Len(rooms) - first
            G == num_groups
            share(k) == IF k <= G % L THEN G \div L + 1 ELSE G \div L
        IN  /\ \A k \in 1..L :
                   /\ Cardinality(GroupsInRoom(first + k)) = share(k)
                   /\ Len(RoomSlots(first + k))
                          = share(k) * ((testlen - slotlen) \div slotlen)
            /\ test = 2 => Len(RoomSlots(1)) = G

\* test 2, three lab rooms, five groups: two rooms with two groups, one with one
C17_Witness ==
    /\ Constructed
    /\ test = 2
    /\ Len(rooms) = 4
    /\ num_groups = 5
    /\ [q \in 1..Rows |-> Len(RoomSlots(q))] = <<5, 6, 6, 3>>
    /\ [q \in 1..Rows |-> Cardinality(GroupsInRoom(q))] = <<5, 2, 2, 1>>

----------------------------------------------------------------------------
(* Properties of the optimizer's evaluations (checked under SpecEval) *)

\* the slots when each carries the tutor the chromosome names for it
AssignedSlots(genome) ==
    [s \in 1..Len(slots) |-> [slots[s] EXCEPT !.tutor = tutors[genome[s] + 1]]]

\* C18: whatever was applied and evaluated before, the evaluation of a valid
\* chromosome leaves every slot with the chromosome's tutor and yields the
\* outcome and score that the timetable carrying exactly this chromosome
\* has; so two histories, or two evaluations in a row, agree on its score.
C18_HistoryIndependent ==
    (pc = "constructed" /\ last.op = "eval_func") =>
        LET expected == EvalScore(AssignedSlots(last.genome))
        IN  /\ slots = AssignedSlots(last.genome)
            /\ last.res = expected.res
            /\ last.res = "ok" => last.score = expected.score

C18_Witness ==
    /\ pc = "constructed"
    /\ last.op = "eval_func"
    /\ last.res = "ok"
    /\ Len(tutors) >= 2
    /\ Len(rooms) >= 2
    /\ \E s1, s2 \in 1..Len(slots) : last.genome[s1] # last.genome[s2]

----------------------------------------------------------------------------
(* Atomicity of apply_genome (checked under SpecApply) *)

\* C19: a call of apply_genome either succeeds with every slot carrying the
\* tutor its gene names, or fails and leaves every slot's tutor as it was;
\* this includes chromosomes of the right length with a gene that is no index
\* of the tutor list.
C19_AllOrNothing ==
    [][(pc = "constructed" /\ last'.op = "apply_genome") =>
          IF last'.res = "ok"
          THEN \A s \in 1..Len(slots) : slots'[s].tutor = tutors[last'.genome[s] + 1]
          ELSE slots' = slots]_vars

----------------------------------------------------------------------------
(* Range of the piecewise-linear score (checked under Spec) *)

\* C20: for an accepted configuration and a complete assignment every
\* criterion of piecewise_linear is scored with 0 <= reached <= maximum, so
\* that its contribution lies in 0..weight, and the total score lies in
\* 0..20.3 (scores are counted in tenths).
C20_ScoreBounds ==
    (pc = "constructed" /\ last.op = "piecewise_linear" /\ Accepted /\ Complete) =>
        /\ last.res = "ok"
        /\ \A k \in 1..Len(last.log) :
               /\ 0 <= last.log[k].reached
               /\ last.log[k].reached <= last.log[k].maximum
        /\ ScoreWithin(last.score, 0, 203)

----------------------------------------------------------------------------
(* Ranges of the measures (checked under Spec) *)

\* C21: for an accepted configuration and a complete assignment the reported
\* difference of the test lengths is at most (tutors - 1) x slots, the worst
\* case the report prints next to it and the end of the fuzzy range 'testdiff'.
C21_TestLengthDifferenceBound ==
    (pc = "constructed" /\ last.op = "print_measures" /\ Accepted /\ Complete) =>
        /\ last.test_length_difference[2] = (Len(tutors) - 1) * Len(slots)
        /\ last.test_length_difference[2] = FuzzyRanges.testdiff
        /\ last.test_length_difference[1] <= last.test_length_difference[2]

\* C22: for an accepted configuration and a complete assignment the reported
\* number of room changes is at most slots - rooms, the maximum the report
\* prints next to it and the end of the fuzzy range 'rchanges'.
C22_RoomChangesBound ==
    (pc = "constructed" /\ last.op = "print_measures" /\ Accepted /\ Complete) =>
        /\ last.room_changes[2] = Len(slots) - Len(rooms)
        /\ last.room_changes[2] = FuzzyRanges.rchanges
        /\ last.room_changes[1] <= last.room_changes[2]

----------------------------------------------------------------------------
(* Groups of the constructed timetable (checked under SpecBuild) *)

\* C23: in the constructed timetable two distinct slots of the same group
\* never start at the same time: no group is in two rooms at once, the
\* preparation room of test 2 included.
C23_GroupInOneRoomAtATime ==
    Constructed =>
        \A i, j \in 1..Len(slots) :
            (i # j /\ slots[i].group = slots[j].group) => slots[i].start # slots[j].start

\* cells <<room, column>> of the lab rooms, and columns of the preparation
\* room, whose slot belongs to group gid
LabCellsOfGroup(gid) ==
    {rc \in ((IF test = 2 THEN 2 ELSE 1)..Rows) \X (1..Cols) :
        /\ slot_matrix[rc[1]][rc[2]] # 0
        /\ slots[slot_matrix[rc[1]][rc[2]]].group = gid}

PreparationOfGroup(gid) ==
    {c \in 1..Cols : slot_matrix[1][c] # 0 /\ slots[slot_matrix[1][c]].group = gid}

\* C24: in the constructed timetable every slot has a group id in 0..G-1;
\* every group has exactly (testlen - slotlen)/slotlen lab slots, in one room
\* and in consecutive columns; in test 2 every group has exactly one slot in
\* the preparation room as well.
C24_GroupsComplete ==
    Constructed =>
        /\ \A i \in 1..Len(slots) : slots[i].group \in 0..(num_groups - 1)
        /\ \A gid \in 0..(num_groups - 1) :
               LET cells == LabCellsOfGroup(gid)
                   columns == {rc[2] : rc \in cells}
               IN  /\ Cardinality(cells) = (testlen - slotlen) \div slotlen
                   /\ \A rc1, rc2 \in cells : rc1[1] = rc2[1]
                   /\ \A c \in columns, c2 \in columns :
                          \A c3 \in c..c2 : c3 \in columns
                   /\ test = 2 => Cardinality(PreparationOfGroup(gid)) = 1

\* test 2 with two lab rooms and five groups: the last group sits in the first
\* lab room, after two others
C24_Witness ==
    /\ Constructed
    /\ test = 2
    /\ Len(rooms) = 3
    /\ num_groups = 5
    /\ LabCellsOfGroup(4) = {<<2, 8>>, <<2, 9>>, <<2, 10>>}
    /\ PreparationOfGroup(4) = {5}

----------------------------------------------------------------------------
(* Test lengths and holes (checked under Spec) *)

\* start times of the slots a tutor holds
StartsOfTutor(tutor) == {slots[i].start : i \in SlotsOfTutor(tutor)}

\* the tutor's slots lie in consecutive time columns
Consecutive(tutor) ==
    \A a, b \in StartsOfTutor(tutor) :
        \A m \in 0..Len(slots) + Len(rooms) :
            (a + m * slotlen < b) => (a + m * slotlen) \in StartsOfTutor(tutor)

\* C25: for a complete assignment in which no tutor holds two slots with the
\* same start, the reported test lengths of all tutors add up to the number
\* of slots plus the holes; the holes are never negative, and they are 0
\* exactly when the slots of every tutor lie in consecutive time columns.
C25_LengthsSlotsHoles ==
    (/\ pc = "constructed"
     /\ last.op = "print_measures"
     /\ Complete
     /\ \A k \in 1..Len(tutors) : ~DoubleBooked(tutors[k])) =>
        /\ SumTo(last.testlen_of, Len(tutors)) = Len(slots) + count_tutor_holes
        /\ count_tutor_holes >= 0
        /\ count_tutor_holes = 0 <=> \A k \in 1..Len(tutors) : Consecutive(tutors[k])

====
